---- MODULE Spec2Model ----
(***************************************************************************)
(* A model of NeoloadUtility.py: the cURL transcript parser (parse_curl),  *)
(* the JSON schema inferrer (infer_json_schema) and the OpenAPI document   *)
(* aggregator (generate_openapi_json).                                     *)
(*                                                                         *)
(* Python strings are TLA+ strings (sequences of characters); a Python     *)
(* value of dynamic type is a tagged record [t |-> tag, v |-> payload];    *)
(* a Python dict whose keys are data is a sequence of <<key, value>> pairs *)
(* in insertion order; a Python dict with fixed keys is a TLA+ record.     *)
(* An intermediate value that is used more than once is passed as an       *)
(* operator argument, which is evaluated once.                             *)
(***************************************************************************)
EXTENDS Integers, Sequences, FiniteSets, TLC

VARIABLES
    curl_command,   \* parse_curl: its argument
    command_parts,  \* parse_curl: the tokens of shlex.split
    i,              \* parse_curl: the cursor (1-based here, 0-based in the code)
    details,        \* parse_curl: the record being filled
    ppc,            \* parse_curl: "idle", "start", "loop", "returned", "raised"
    perr,           \* parse_curl: the exception raised, "" when none
    data,           \* infer_json_schema: its argument
    schema,         \* infer_json_schema: its result
    ipc,            \* infer_json_schema: "idle", "call", "returned"
    requests,       \* generate_openapi_json: its argument
    idx,            \* generate_openapi_json: the next entry of enumerate(requests), 1-based
    openapi_spec,   \* generate_openapi_json: the document being built
    unique_servers, \* generate_openapi_json: the set of origins seen
    pc,             \* generate_openapi_json: "idle", "loop", "returned", "raised"
    err             \* generate_openapi_json: the exception that left it, "" when none

vars == <<curl_command, command_parts, i, details, ppc, perr, data, schema, ipc,
          requests, idx, openapi_spec, unique_servers, pc, err>>

parseVars == <<curl_command, command_parts, i, details, ppc, perr>>
inferVars == <<data, schema, ipc>>
genVars == <<requests, idx, openapi_spec, unique_servers, pc, err>>

(***************************************************************************)
(* Bounds of the model.                                                    *)
(***************************************************************************)
MaxTokens == 3   \* words of a command line given to parse_curl
MaxListLen == 2  \* elements of a JSON array given to infer_json_schema
MaxReqs == 2     \* transcripts of a batch given to generate_openapi_json

(***************************************************************************)
(* Python's str methods.                                                   *)
(***************************************************************************)
Ch(s, k) == SubSeq(s, k, k)

\* str.startswith
StartsWith(s, p) == Len(s) >= Len(p) /\ SubSeq(s, 1, Len(p)) = p

UpperLetters == "ABCDEFGHIJKLMNOPQRSTUVWXYZ"
LowerLetters == "abcdefghijklmnopqrstuvwxyz"

Least(S) == CHOOSE x \in S : \A y \in S : x <= y
Greatest(S) == CHOOSE x \in S : \A y \in S : x >= y

\* the least element of a set of positions, 0 when it is empty
LeastOr0(S) == IF S = {} THEN 0 ELSE Least(S)

\* the greatest element of a set of positions, 0 when it is empty
GreatestOr0(S) == IF S = {} THEN 0 ELSE Greatest(S)

\* c in chars
CharIn(c, chars) == \E j \in 1..Len(chars) : Ch(chars, j) = c

\* the least position >= k of a character of chars in s, 0 when there is none
FindFirstOf(s, chars, k) == LeastOr0({j \in k..Len(s) : CharIn(Ch(s, j), chars)})

\* the least position >= k of a character not of chars in s, 0 when there is none
FindFirstNotOf(s, chars, k) == LeastOr0({j \in k..Len(s) : ~CharIn(Ch(s, j), chars)})

\* the least position >= k of character c in s, 0 when there is none
IndexIn(s, c, k) == FindFirstOf(s, c, k)

\* the greatest position <= k of character c in s, 0 when there is none
LastIndexIn(s, c, k) == GreatestOr0({j \in 1..k : Ch(s, j) = c})

RECURSIVE ConcatRange(_, _, _)
\* "".join(q[lo..hi])
ConcatRange(q, lo, hi) ==
    IF lo > hi THEN ""
    ELSE IF lo = hi THEN q[lo]
    ELSE ConcatRange(q, lo, (lo + hi) \div 2) \o ConcatRange(q, ((lo + hi) \div 2) + 1, hi)

\* c, or the character at position k of letters when k is a position
Mapped(c, k, letters) == IF k = 0 THEN c ELSE Ch(letters, k)

LowerCh(c) == Mapped(c, IndexIn(UpperLetters, c, 1), LowerLetters)

UpperCh(c) == Mapped(c, IndexIn(LowerLetters, c, 1), UpperLetters)

\* str.lower
Lower(s) == ConcatRange([k \in 1..Len(s) |-> LowerCh(Ch(s, k))], 1, Len(s))

\* str.upper
Upper(s) == ConcatRange([k \in 1..Len(s) |-> UpperCh(Ch(s, k))], 1, Len(s))

Whitespace == " \t\n\r"

IsSpace(c) == CharIn(c, Whitespace)

\* s between the first and the last of the positions keep
Between(s, keep) == IF keep = {} THEN "" ELSE SubSeq(s, Least(keep), Greatest(keep))

\* str.strip(chars)
StripChars(s, chars) == Between(s, {j \in 1..Len(s) : ~CharIn(Ch(s, j), chars)})

\* str.strip()
Strip(s) == StripChars(s, Whitespace)

\* s cut around position k, whole when k = 0
CutAt(s, k) == IF k = 0 THEN <<s>> ELSE <<SubSeq(s, 1, k - 1), SubSeq(s, k + 1, Len(s))>>

\* str.split(sep, 1): one piece when sep does not occur, else the two around its
\* first occurrence
Split1(s, sep) == CutAt(s, IndexIn(s, sep, 1))

\* str.replace(old, new) for a one-character old
Replace(s, old, new) ==
    ConcatRange([k \in 1..Len(s) |-> IF Ch(s, k) = old THEN new ELSE Ch(s, k)], 1, Len(s))

Digits == "0123456789"

RECURSIVE IntToStr(_)
\* str(n) of a natural number, as an f-string formats it
IntToStr(n) ==
    IF n < 10 THEN Ch(Digits, n + 1)
    ELSE IntToStr(n \div 10) \o Ch(Digits, (n % 10) + 1)

(***************************************************************************)
(* Python values of dynamic type.                                          *)
(***************************************************************************)
PyNone == [t |-> "none"]
PyStr(s) == [t |-> "str", v |-> s]
PyInt(n) == [t |-> "int", v |-> n]
PyFloat(tenths) == [t |-> "float", v |-> tenths]  \* v is ten times the value
PyBool(b) == [t |-> "bool", v |-> b]
PyList(l) == [t |-> "list", v |-> l]    \* v: a sequence of values
PyDict(d) == [t |-> "dict", v |-> d]    \* v: a sequence of <<key, value>>

\* bool(x): the truth value an `if x:` tests
Truthy(x) ==
    CASE x.t = "none" -> FALSE
      [] x.t = "str" -> x.v # ""
      [] x.t = "int" -> x.v # 0
      [] x.t = "float" -> x.v # 0
      [] x.t = "bool" -> x.v
      [] x.t = "list" -> x.v # <<>>
      [] x.t = "dict" -> x.v # <<>>

\* isinstance(x, cls): bool is a subclass of int
IsInstance(x, cls) ==
    \/ x.t = cls
    \/ cls = "int" /\ x.t = "bool"

\* the position of key k in the pairs d, 0 when absent
KeyIndex(d, k) == LeastOr0({j \in 1..Len(d) : d[j][1] = k})

\* k in d
HasKey(d, k) == KeyIndex(d, k) # 0

ValueAt(d, j, default) == IF j = 0 THEN default ELSE d[j][2]

\* d.get(k, default)
DictGet(d, k, default) == ValueAt(d, KeyIndex(d, k), default)

PutAt(d, j, k, v) == IF j = 0 THEN Append(d, <<k, v>>) ELSE [d EXCEPT ![j] = <<k, v>>]

\* d[k] = v: an existing key keeps its place
DictSet(d, k, v) == PutAt(d, KeyIndex(d, k), k, v)

DictKeys(d) == {d[j][1] : j \in 1..Len(d)}

(***************************************************************************)
(* shlex.split(curl_command): the tokenizer parse_curl calls (POSIX mode,  *)
(* whitespace_split, no comments).  shlex reads character by character;    *)
(* here each step takes a whole run of characters that shlex treats alike: *)
(* a run of whitespace, a run of plain characters, a quoted span up to its *)
(* closing quote or next escape, or an escape and the character after it.  *)
(* tok is the token being built, quoted whether a quote has opened in it   *)
(* (an empty token counts only then), out the tokens read so far.          *)
(***************************************************************************)
NoClosingQuotation == [raised |-> "ValueError", tokens |-> <<>>]
NoEscapedCharacter == [raised |-> "ValueError", tokens |-> <<>>]

Emit(out, tok, quoted) == IF tok # "" \/ quoted THEN Append(out, tok) ELSE out

\* position j, or the end of s when j = 0
OrEnd(s, j) == IF j = 0 THEN Len(s) + 1 ELSE j

RECURSIVE LexWord(_, _, _, _, _)
RECURSIVE LexDouble(_, _, _, _)
RECURSIVE LexSingle(_, _, _, _, _)
RECURSIVE LexPlain(_, _, _, _, _, _)
RECURSIVE LexDoubleAt(_, _, _, _, _)

\* at position k outside quotes
LexWord(s, k, tok, quoted, out) ==
    IF k > Len(s) THEN [raised |-> "", tokens |-> Emit(out, tok, quoted)]
    ELSE IF IsSpace(Ch(s, k))
    THEN LexWord(s, OrEnd(s, FindFirstNotOf(s, Whitespace, k)), "", FALSE,
                 Emit(out, tok, quoted))
    ELSE IF Ch(s, k) = "\\"
    THEN IF k = Len(s) THEN NoEscapedCharacter
         ELSE LexWord(s, k + 2, tok \o Ch(s, k + 1), quoted, out)
    ELSE IF Ch(s, k) = "'" THEN LexSingle(s, k, IndexIn(s, "'", k + 1), tok, out)
    ELSE IF Ch(s, k) = "\"" THEN LexDouble(s, k + 1, tok, out)
    ELSE LexPlain(s, k, OrEnd(s, FindFirstOf(s, Whitespace \o "\\'\"", k)), tok, quoted, out)

\* a single-quoted span opened at k and closed at j (0: never)
LexSingle(s, k, j, tok, out) ==
    IF j = 0 THEN NoClosingQuotation
    ELSE LexWord(s, j + 1, tok \o SubSeq(s, k + 1, j - 1), TRUE, out)

\* a run of plain characters from k up to end
LexPlain(s, k, end, tok, quoted, out) ==
    LexWord(s, end, tok \o SubSeq(s, k, end - 1), quoted, out)

\* at position k inside a double-quoted span
LexDouble(s, k, tok, out) == LexDoubleAt(s, k, FindFirstOf(s, "\\\"", k), tok, out)

\* ... whose next double quote or backslash is at j (0: none): a backslash
\* escapes a double quote or a backslash, and stays before any other character
LexDoubleAt(s, k, j, tok, out) ==
    IF j = 0 THEN NoClosingQuotation
    ELSE IF Ch(s, j) = "\"" THEN LexWord(s, j + 1, tok \o SubSeq(s, k, j - 1), TRUE, out)
    ELSE IF j = Len(s) THEN NoEscapedCharacter
    ELSE LexDouble(s, j + 2,
                   tok \o SubSeq(s, k, j - 1)
                       \o (IF Ch(s, j + 1) = "\\" \/ Ch(s, j + 1) = "\""
                           THEN Ch(s, j + 1) ELSE "\\" \o Ch(s, j + 1)),
                   out)

\* shlex.split: [raised |-> "" or "ValueError", tokens |-> the tokens]
shlex_split(s) == LexWord(s, 1, "", FALSE, <<>>)

(***************************************************************************)
(* json.loads(body_content) on the bodies the model's transcripts carry:   *)
(* [ok |-> TRUE, value |-> v] or [ok |-> FALSE] for a JSONDecodeError.     *)
(***************************************************************************)
JsonDecode(body) ==
    CASE body = "{}" -> [ok |-> TRUE, value |-> PyDict(<<>>)]
      [] body = "{\"k\":1}" -> [ok |-> TRUE, value |-> PyDict(<< <<"k", PyInt(1)>> >>)]
      [] body = "{\"k\":true}" -> [ok |-> TRUE, value |-> PyDict(<< <<"k", PyBool(TRUE)>> >>)]
      [] body = "[]" -> [ok |-> TRUE, value |-> PyList(<<>>)]
      [] body = "[1]" -> [ok |-> TRUE, value |-> PyList(<<PyInt(1)>>)]
      [] body = "0" -> [ok |-> TRUE, value |-> PyInt(0)]
      [] body = "1" -> [ok |-> TRUE, value |-> PyInt(1)]
      [] body = "1.5" -> [ok |-> TRUE, value |-> PyFloat(15)]
      [] body = "false" -> [ok |-> TRUE, value |-> PyBool(FALSE)]
      [] body = "true" -> [ok |-> TRUE, value |-> PyBool(TRUE)]
      [] body = "null" -> [ok |-> TRUE, value |-> PyNone]
      [] body = "\"\"" -> [ok |-> TRUE, value |-> PyStr("")]
      [] OTHER -> [ok |-> FALSE]

\* json.loads skips the whitespace around the document
json_loads(s) == JsonDecode(Strip(s))

(***************************************************************************)
(* parse_curl.  A step of its loop yields [i, details, raised]: the cursor,*)
(* the record being filled and the exception that ends it ("" for none).   *)
(***************************************************************************)
RequestFlags == {"-X", "--request"}
HeaderFlags == {"-H", "--header"}
DataFlags == {"-d", "--data", "--data-raw", "--data-binary"}
FormFlags == {"-F", "--form"}

\* details as line 11 builds it
InitialDetails == [method |-> "GET", url |-> PyNone, headers |-> <<>>, body |-> PyNone]

\* the branch of the if/elif chain that the token at the cursor takes
BranchOf(parts, k) ==
    CASE parts[k] \in RequestFlags /\ k + 1 <= Len(parts) -> "request"
      [] parts[k] \in HeaderFlags /\ k + 1 <= Len(parts) -> "header"
      [] parts[k] \in DataFlags /\ k + 1 <= Len(parts) -> "data"
      [] parts[k] \in FormFlags /\ k + 1 <= Len(parts) -> "form"
      [] OTHER -> IF StartsWith(parts[k], "http") THEN "url" ELSE "other"

\* -X / --request
DoRequest(parts, k, d) ==
    [i |-> k + 2, details |-> [d EXCEPT !.method = Upper(parts[k + 1])], raised |-> ""]

\* lines 21-23
SetHeader(d, header_parts) ==
    IF Len(header_parts) = 2
    THEN [d EXCEPT !.headers = DictSet(@, Strip(header_parts[1]), Strip(header_parts[2]))]
    ELSE d

\* -H / --header
DoHeader(parts, k, d) ==
    [i |-> k + 2, details |-> SetHeader(d, Split1(parts[k + 1], ":")), raised |-> ""]

\* lines 27-30
LoadBody(body_content, loaded) == IF loaded.ok THEN loaded.value ELSE PyStr(body_content)

\* -d / --data / --data-raw / --data-binary
DoData(parts, k, d) ==
    [i |-> k + 2,
     details |-> [d EXCEPT !.body = LoadBody(parts[k + 1], json_loads(parts[k + 1]))],
     raised |-> ""]

\* details.get('body', {}): the key 'body' is in details from line 11 on
GetBody(d) == IF "body" \in DOMAIN d THEN d.body ELSE PyDict(<<>>)

\* lines 33-37: details['body'][key] = value raises TypeError unless the body
\* is a dict
SetForm(k, d, body, form_data) ==
    IF Len(form_data) # 2
    THEN [i |-> k + 2, details |-> [d EXCEPT !.body = body], raised |-> ""]
    ELSE IF body.t = "dict"
    THEN [i |-> k + 2,
          details |-> [d EXCEPT !.body =
                           PyDict(DictSet(body.v, form_data[1], PyStr(form_data[2])))],
          raised |-> ""]
    ELSE [i |-> k, details |-> [d EXCEPT !.body = body], raised |-> "TypeError"]

\* -F / --form
DoForm(parts, k, d) == SetForm(k, d, GetBody(d), Split1(parts[k + 1], "="))

DoUrlFirstWins(parts, k, d) ==
    [i |-> k + 1,
     details |-> IF d.url = PyNone THEN [d EXCEPT !.url = PyStr(parts[k])] ELSE d,
     raised |-> ""]

\* a token that starts with http
DoUrl(parts, k, d) ==
    [i |-> k + 1, details |-> [d EXCEPT !.url = PyStr(parts[k])], raised |-> ""]

\* any other token
DoOther(parts, k, d) == [i |-> k + 1, details |-> d, raised |-> ""]

Dispatch(b, parts, k, d) ==
    CASE b = "request" -> DoRequest(parts, k, d)
      [] b = "header" -> DoHeader(parts, k, d)
      [] b = "data" -> DoData(parts, k, d)
      [] b = "form" -> DoForm(parts, k, d)
      [] b = "url" -> DoUrl(parts, k, d)
      [] b = "other" -> DoOther(parts, k, d)

\* one turn of the while loop
ParseStep(parts, k, d) == Dispatch(BranchOf(parts, k), parts, k, d)

RECURSIVE ParseLoop(_, _, _)
RECURSIVE ParseAfter(_, _)

\* the loop from cursor k on
ParseLoop(parts, k, d) ==
    IF k > Len(parts) THEN [raised |-> "", details |-> d]
    ELSE ParseAfter(parts, ParseStep(parts, k, d))

\* ... after a turn that yielded n
ParseAfter(parts, n) ==
    IF n.raised # "" THEN [raised |-> n.raised, details |-> n.details]
    ELSE ParseLoop(parts, n.i, n.details)

ParseTokens(split) ==
    IF split.raised # "" THEN [raised |-> split.raised, details |-> InitialDetails]
    ELSE ParseLoop(split.tokens, 1, InitialDetails)

\* parse_curl(cmd): [raised |-> "", details |-> the record returned], or the
\* exception that leaves it
parse_curl(cmd) == ParseTokens(shlex_split(cmd))

(***************************************************************************)
(* infer_json_schema.  A schema is the dict the code returns, as a record; *)
(* its "properties" is a sequence of <<name, schema>>; {} is EmptyDict.    *)
(***************************************************************************)
EmptyDict == <<>>

RECURSIVE infer_json_schema(_)

\* {k: infer_json_schema(v) for k, v in data.items()}
InferProperties(items) ==
    [j \in 1..Len(items) |-> <<items[j][1], infer_json_schema(items[j][2])>>]

infer_json_schema(x) ==
    IF IsInstance(x, "dict") THEN [type |-> "object", properties |-> InferProperties(x.v)]
    ELSE IF IsInstance(x, "list")
    THEN [type |-> "array",
          items |-> IF Truthy(x) THEN infer_json_schema(x.v[1]) ELSE EmptyDict]
    ELSE IF IsInstance(x, "str") THEN [type |-> "string"]
    ELSE IF IsInstance(x, "int") THEN [type |-> "integer"]
    ELSE IF IsInstance(x, "float") THEN [type |-> "number"]
    ELSE IF IsInstance(x, "bool") THEN [type |-> "boolean"]
    ELSE [type |-> "object"]

(***************************************************************************)
(* urllib.parse.urlparse and parse_qs, as generate_openapi_json uses them. *)
(* The model's URLs hold no whitespace, no '[' or ']' (urlparse raises on  *)
(* an unbalanced bracket in the netloc) and no percent-escapes or '+'      *)
(* (parse_qs decodes them).  Each stage of urlparse takes what the stages  *)
(* before it have split off and the rest of the URL.                       *)
(***************************************************************************)
SchemeChars == LowerLetters \o UpperLetters \o Digits \o "+-."

AllIn(s, chars) == \A j \in 1..Len(s) : CharIn(Ch(s, j), chars)

\* the path, with its parameters after the ';' at position semi (0: none)
SplitParams(scheme, netloc, rest, query, fragment, semi) ==
    [scheme |-> scheme,
     netloc |-> netloc,
     path |-> IF semi = 0 THEN rest ELSE SubSeq(rest, 1, semi - 1),
     params |-> IF semi = 0 THEN "" ELSE SubSeq(rest, semi + 1, Len(rest)),
     query |-> query,
     fragment |-> fragment]

\* the query, after the '?' at position mark (0: none); then _splitparams
\* looks for the first ';' of the last path segment
SplitQuery(scheme, netloc, rest, fragment, mark) ==
    IF mark = 0
    THEN SplitParams(scheme, netloc, rest, "", fragment,
                     IndexIn(rest, ";", LastIndexIn(rest, "/", Len(rest)) + 1))
    ELSE SplitParams(scheme, netloc, SubSeq(rest, 1, mark - 1),
                     SubSeq(rest, mark + 1, Len(rest)), fragment,
                     IndexIn(SubSeq(rest, 1, mark - 1), ";",
                             LastIndexIn(rest, "/", mark - 1) + 1))

\* the fragment, after the '#' at position hash (0: none)
SplitFragment(scheme, netloc, rest, hash) ==
    IF hash = 0 THEN SplitQuery(scheme, netloc, rest, "", IndexIn(rest, "?", 1))
    ELSE SplitQuery(scheme, netloc, SubSeq(rest, 1, hash - 1),
                    SubSeq(rest, hash + 1, Len(rest)),
                    IndexIn(SubSeq(rest, 1, hash - 1), "?", 1))

\* the netloc of a rest that starts with //, up to the '/', '?' or '#' at
\* position delim (0: none)
SplitNetlocAt(scheme, rest, delim) ==
    IF delim = 0 THEN SplitFragment(scheme, SubSeq(rest, 3, Len(rest)), "", 0)
    ELSE SplitFragment(scheme, SubSeq(rest, 3, delim - 1), SubSeq(rest, delim, Len(rest)),
                       IndexIn(SubSeq(rest, delim, Len(rest)), "#", 1))

SplitNetloc(scheme, rest) ==
    IF StartsWith(rest, "//") THEN SplitNetlocAt(scheme, rest, FindFirstOf(rest, "/?#", 3))
    ELSE SplitFragment(scheme, "", rest, IndexIn(rest, "#", 1))

\* the scheme, before the ':' at position colon when what precedes it is a
\* letter followed by scheme characters
SplitScheme(url, colon) ==
    IF /\ colon > 1
       /\ CharIn(Ch(url, 1), LowerLetters \o UpperLetters)
       /\ AllIn(SubSeq(url, 1, colon - 1), SchemeChars)
    THEN SplitNetloc(Lower(SubSeq(url, 1, colon - 1)), SubSeq(url, colon + 1, Len(url)))
    ELSE SplitNetloc("", url)

urlparse(url) == SplitScheme(url, IndexIn(url, ":", 1))

\* the pieces of s between the positions cuts, from position k on
RECURSIVE Pieces(_, _, _)
Pieces(s, cuts, k) ==
    IF {c \in cuts : c >= k} = {} THEN <<SubSeq(s, k, Len(s))>>
    ELSE <<SubSeq(s, k, Least({c \in cuts : c >= k}) - 1)>>
         \o Pieces(s, cuts, Least({c \in cuts : c >= k}) + 1)

\* str.split(sep) for a one-character sep
SplitAll(s, sep) == Pieces(s, {j \in 1..Len(s) : Ch(s, j) = sep}, 1)

\* a name=value field with a non-blank value joins the values of its name
AddField(acc, nv) ==
    IF Len(nv) = 2 /\ nv[2] # ""
    THEN DictSet(acc, nv[1], Append(DictGet(acc, nv[1], <<>>), nv[2]))
    ELSE acc

RECURSIVE QsPairs(_, _, _)
QsPairs(fields, k, acc) ==
    IF k > Len(fields) THEN acc
    ELSE QsPairs(fields, k + 1, AddField(acc, Split1(fields[k], "=")))

\* parse_qs(query): name -> the list of its values
parse_qs(query) == QsPairs(SplitAll(query, "&"), 1, <<>>)

(***************************************************************************)
(* generate_openapi_json: what one turn of its loop computes from the      *)
(* record parse_curl returned (parsed_data) and the 0-based index k of     *)
(* enumerate.                                                              *)
(***************************************************************************)
\* openapi_spec as lines 63-69 build it
InitialDocument ==
    [openapi |-> "3.0.0",
     info |-> [title |-> "Generated API Specification", version |-> "1.0.0"],
     servers |-> <<>>,
     paths |-> <<>>,
     components |-> [schemas |-> <<>>, securitySchemes |-> <<>>]]

\* f"{url_parts.scheme}://{url_parts.netloc}"
ServerUrl(url_parts) == url_parts.scheme \o "://" \o url_parts.netloc

\* url_parts.path or "/"
PathOf(url_parts) == IF url_parts.path # "" THEN url_parts.path ELSE "/"

\* x or default, for strings
OrDefault(x, default) == IF x # "" THEN x ELSE default

OperationIdNoIndex(method, path, k) ==
    method \o "_" \o OrDefault(StripChars(Replace(path, "/", "_"), "_"), "root")

\* f"{method}_{path.replace('/', '_').strip('_') or 'root'}_{i}"
OperationId(method, path, k) ==
    method \o "_" \o OrDefault(StripChars(Replace(path, "/", "_"), "_"), "root")
           \o "_" \o IntToStr(k)

\* f"Schema_{operation_id}"
SchemaName(operation_id) == "Schema_" \o operation_id

\* f"#/components/schemas/{schema_name}"
SchemaRef(schema_name) == "#/components/schemas/" \o schema_name

StringSchema == << <<"type", "string">> >>

\* lines 99-106: one entry per key of parse_qs, with its first value
QueryParameters(query_params) ==
    [j \in 1..Len(query_params) |->
        [name |-> query_params[j][1], in |-> "query", required |-> FALSE,
         schema |-> StringSchema, example |-> query_params[j][2][1]]]

\* lines 109-114: every header but content-type and authorization, in any case
IsParameter(header) == Lower(header) \notin {"content-type", "authorization"}

RECURSIVE HeaderParameters(_, _)
HeaderParameters(headers, k) ==
    IF k > Len(headers) THEN <<>>
    ELSE (IF IsParameter(headers[k][1])
          THEN <<[name |-> headers[k][1], in |-> "header", required |-> FALSE,
                  schema |-> StringSchema, example |-> headers[k][2]]>>
          ELSE <<>>)
         \o HeaderParameters(headers, k + 1)

\* headers.get('Authorization'): the value under the key as written, "" for the
\* None that line 118 takes like the empty string
AuthHeader(headers) == DictGet(headers, "Authorization", "")

\* lines 118-124: the security scheme an Authorization value names, "" for none
SchemeOf(auth_header) ==
    IF auth_header = "" THEN ""
    ELSE IF StartsWith(Lower(auth_header), "bearer ") THEN "BearerAuth"
    ELSE IF StartsWith(Lower(auth_header), "basic ") THEN "BasicAuth"
    ELSE ""

AuthScheme(headers) == SchemeOf(AuthHeader(headers))

SchemeDefinition(name) ==
    IF name = "BearerAuth" THEN [type |-> "http", scheme |-> "bearer"]
    ELSE [type |-> "http", scheme |-> "basic"]

\* line 127: if body_content
HasBody(body_content) == Truthy(body_content)

\* parsed_data['headers'].get('Content-Type', 'application/json')
ContentType(headers) == DictGet(headers, "Content-Type", "application/json")

\* line 134: the body gets a schema of its own
HasOwnSchema(headers, body_content) ==
    ContentType(headers) = "application/json" /\ IsInstance(body_content, "dict")

\* lines 128-139
RequestBody(headers, body_content, operation_id) ==
    [required |-> TRUE,
     content |-> << <<ContentType(headers),
                      [schema |-> IF HasOwnSchema(headers, body_content)
                                  THEN << <<"$ref", SchemaRef(SchemaName(operation_id))>> >>
                                  ELSE StringSchema]>> >>]

\* the optional keys of path_details
WithParameters(parameters) ==
    IF parameters # <<>> THEN [parameters |-> parameters] ELSE <<>>

WithSecurity(scheme) ==
    IF scheme # "" THEN [security |-> << << <<scheme, <<>> >> >> >>] ELSE <<>>

WithRequestBody(headers, body_content, operation_id) ==
    IF HasBody(body_content)
    THEN [requestBody |-> RequestBody(headers, body_content, operation_id)]
    ELSE <<>>

\* path_details as lines 91-139 assemble it
Operation(parsed_data, url_parts, path, operation_id) ==
    [summary |-> parsed_data.method \o " " \o path,
     operationId |-> operation_id,
     servers |-> <<[url |-> ServerUrl(url_parts)]>>,
     responses |-> << <<"200", [description |-> "Successful response"]>> >>]
    @@ WithParameters(QueryParameters(parse_qs(url_parts.query))
                      \o HeaderParameters(parsed_data.headers, 1))
    @@ WithSecurity(AuthScheme(parsed_data.headers))
    @@ WithRequestBody(parsed_data.headers, parsed_data.body, operation_id)

AddServerAlways(servers, seen, server_url) == Append(servers, [url |-> server_url])

\* lines 81-83: the origin is appended unless seen
AddServer(servers, seen, server_url) ==
    IF server_url \notin seen THEN Append(servers, [url |-> server_url]) ELSE servers

\* lines 118-124: the scheme of the record is registered
PutScheme(schemes, scheme) ==
    IF scheme # "" THEN DictSet(schemes, scheme, SchemeDefinition(scheme)) ELSE schemes

RegisterScheme(schemes, headers) == PutScheme(schemes, AuthScheme(headers))

RegisterSchemaNever(schemas, parsed_data, operation_id) == schemas

\* lines 127-136: the schema of a JSON object body is registered
RegisterSchema(schemas, parsed_data, operation_id) ==
    IF HasBody(parsed_data.body) /\ HasOwnSchema(parsed_data.headers, parsed_data.body)
    THEN DictSet(schemas, SchemaName(operation_id), infer_json_schema(parsed_data.body))
    ELSE schemas

PutOperationKeepFirst(paths, path, method, path_details) ==
    IF HasKey(DictGet(paths, path, <<>>), method) THEN paths
    ELSE DictSet(paths, path, DictSet(DictGet(paths, path, <<>>), method, path_details))

\* line 141: openapi_spec['paths'][path][method] = path_details
PutOperation(paths, path, method, path_details) ==
    DictSet(paths, path, DictSet(DictGet(paths, path, <<>>), method, path_details))

\* lines 85-141, given the path, the method and the operation id
Record(doc, seen, parsed_data, url_parts, path, method, operation_id) ==
    [doc EXCEPT
       !.servers = AddServer(@, seen, ServerUrl(url_parts)),
       !.components.securitySchemes = RegisterScheme(@, parsed_data.headers),
       !.components.schemas = RegisterSchema(@, parsed_data, operation_id),
       !.paths = PutOperation(@, path, method,
                              Operation(parsed_data, url_parts, path, operation_id))]

\* lines 79-141, given the parts of the URL
RecordAt(doc, seen, parsed_data, url_parts, k) ==
    Record(doc, seen, parsed_data, url_parts, PathOf(url_parts),
           Lower(parsed_data.method),
           OperationId(Lower(parsed_data.method), PathOf(url_parts), k))

\* lines 79-141: the document after the record at index k
ProcessRecord(doc, seen, parsed_data, k) ==
    RecordAt(doc, seen, parsed_data, urlparse(parsed_data.url.v), k)

(***************************************************************************)
(* The inputs of the model.                                                *)
(***************************************************************************)
RECURSIVE SeqsUpTo(_, _)
\* the sequences of at most n elements of S
SeqsUpTo(S, n) ==
    IF n = 0 THEN {<<>>}
    ELSE SeqsUpTo(S, n - 1) \cup {Append(q, x) : q \in SeqsUpTo(S, n - 1), x \in S}

\* " ".join(words)
Join(words) ==
    ConcatRange([k \in 1..Len(words) |-> IF k = 1 THEN words[k] ELSE " " \o words[k]],
                1, Len(words))

\* the words of the command lines given to parse_curl, as typed
Words ==
    {"-X", "-H", "-d", "-F", "k=v", "A:b", "nov", "'{\"k\":1}'",
     "http://a/x", "https://b/y", "'http://c"}

Commands == {Join(w) : w \in SeqsUpTo(Words, MaxTokens)}

\* the transcripts of the batches given to generate_openapi_json
Transcripts ==
    {"curl http://a/x",
     "curl -d '{\"k\":1}' http://a/x",
     "curl -X POST http://a/x -d '{}'",
     "curl -X PUT http://a -d 0",
     "curl http://a/y -H 'Authorization: Bearer t'",
     "curl http://a/y -H 'authorization: Bearer t'",
     "curl https://b/x?q=1 -H 'Authorization: basic t' -H 'X-A: 1'",
     "curl http://a/y -H 'Authorization: Digest t' -H 'Content-Type: text/plain' -d hello",
     "curl -F k=v http://a/x",
     "curl 'http://a/x",
     "curl -X GET",
     "   "}

Batches == SeqsUpTo(Transcripts, MaxReqs)

Scalars ==
    {PyNone, PyStr("a"), PyInt(0), PyInt(1), PyFloat(15), PyBool(TRUE), PyBool(FALSE)}

\* scalars, arrays of scalars and one-entry objects of scalars
Flat ==
    Scalars \cup {PyList(l) : l \in SeqsUpTo(Scalars, MaxListLen)}
            \cup {PyDict(<< <<"k", x>> >>) : x \in Scalars}

\* the JSON values given to infer_json_schema: Flat, and arrays and objects of Flat
JsonValues ==
    Flat \cup {PyList(<<x>>) : x \in Flat}
         \cup {PyList(<<x, PyStr("a")>>) : x \in Flat}
         \cup {PyDict(<< <<"k", x>>, <<"j", PyInt(1)>> >>) : x \in Flat}

(***************************************************************************)
(* parse_curl as a process: one action for each branch of its loop.        *)
(***************************************************************************)
ParseIdle ==
    /\ curl_command = "" /\ command_parts = <<>> /\ i = 1
    /\ details = InitialDetails /\ ppc = "idle" /\ perr = ""

InferIdle == data = PyNone /\ schema = EmptyDict /\ ipc = "idle"

GenIdle ==
    /\ requests = <<>> /\ idx = 1 /\ openapi_spec = InitialDocument
    /\ unique_servers = {} /\ pc = "idle" /\ err = ""

ParseInit ==
    /\ curl_command \in Commands
    /\ command_parts = <<>>
    /\ i = 1
    /\ details = InitialDetails
    /\ ppc = "start"
    /\ perr = ""
    /\ InferIdle
    /\ GenIdle

\* line 12
Tokenize ==
    /\ ppc = "start"
    /\ \E split \in {shlex_split(curl_command)} :
          IF split.raised # ""
          THEN /\ ppc' = "raised"
               /\ perr' = split.raised
               /\ UNCHANGED command_parts
          ELSE /\ ppc' = "loop"
               /\ command_parts' = split.tokens
               /\ UNCHANGED perr
    /\ UNCHANGED <<curl_command, i, details>>
    /\ UNCHANGED <<inferVars, genVars>>

\* a turn of the loop whose token takes branch b, with effect n
Turn(b, n) ==
    /\ ppc = "loop"
    /\ i <= Len(command_parts)
    /\ BranchOf(command_parts, i) = b
    /\ i' = n.i
    /\ details' = n.details
    /\ IF n.raised # ""
       THEN ppc' = "raised" /\ perr' = n.raised
       ELSE UNCHANGED <<ppc, perr>>
    /\ UNCHANGED <<curl_command, command_parts>>
    /\ UNCHANGED <<inferVars, genVars>>

\* lines 16-18
ParseRequest == Turn("request", DoRequest(command_parts, i, details))

\* lines 19-24
ParseHeader == Turn("header", DoHeader(command_parts, i, details))

\* lines 25-31
ParseData == Turn("data", DoData(command_parts, i, details))

\* lines 32-38
ParseForm == Turn("form", DoForm(command_parts, i, details))

\* lines 39-41
ParseUrl == Turn("url", DoUrl(command_parts, i, details))

\* lines 42-43
ParseOther == Turn("other", DoOther(command_parts, i, details))

\* line 44
ParseReturn ==
    /\ ppc = "loop"
    /\ i > Len(command_parts)
    /\ ppc' = "returned"
    /\ UNCHANGED <<curl_command, command_parts, i, details, perr>>
    /\ UNCHANGED <<inferVars, genVars>>

ParseNext ==
    \/ Tokenize
    \/ ParseRequest
    \/ ParseHeader
    \/ ParseData
    \/ ParseForm
    \/ ParseUrl
    \/ ParseOther
    \/ ParseReturn

SpecParse == ParseInit /\ [][ParseNext]_vars

(***************************************************************************)
(* infer_json_schema as a process: one call.                               *)
(***************************************************************************)
InferInit ==
    /\ data \in JsonValues
    /\ schema = EmptyDict
    /\ ipc = "call"
    /\ ParseIdle
    /\ GenIdle

Infer ==
    /\ ipc = "call"
    /\ schema' = infer_json_schema(data)
    /\ ipc' = "returned"
    /\ UNCHANGED data
    /\ UNCHANGED <<parseVars, genVars>>

InferNext == Infer

SpecInfer == InferInit /\ [][InferNext]_vars

(***************************************************************************)
(* generate_openapi_json as a process: one action for each way a turn of   *)
(* its loop over enumerate(requests) ends.                                 *)
(***************************************************************************)
Init ==
    /\ requests \in Batches
    /\ idx = 1
    /\ openapi_spec = InitialDocument
    /\ unique_servers = {}
    /\ pc = "loop"
    /\ err = ""
    /\ ParseIdle
    /\ InferIdle

\* line 73: if not req.strip()
IsBlank(req) == Strip(req) = ""

\* line 76: if not parsed_data['url']
NoUrl(parsed_data) == ~Truthy(parsed_data.url)

\* lines 73-74
SkipBlank ==
    /\ pc = "loop"
    /\ idx <= Len(requests)
    /\ IsBlank(requests[idx])
    /\ idx' = idx + 1
    /\ UNCHANGED <<requests, openapi_spec, unique_servers, pc, err>>
    /\ UNCHANGED <<parseVars, inferVars>>

\* line 75: parse_curl raises, and nothing catches it
ParseRaises ==
    /\ pc = "loop"
    /\ idx <= Len(requests)
    /\ ~IsBlank(requests[idx])
    /\ \E parsed \in {parse_curl(requests[idx])} :
          /\ parsed.raised # ""
          /\ pc' = "raised"
          /\ err' = parsed.raised
    /\ UNCHANGED <<requests, idx, openapi_spec, unique_servers>>
    /\ UNCHANGED <<parseVars, inferVars>>

\* lines 76-77
SkipNoUrl ==
    /\ pc = "loop"
    /\ idx <= Len(requests)
    /\ ~IsBlank(requests[idx])
    /\ \E parsed \in {parse_curl(requests[idx])} :
          /\ parsed.raised = ""
          /\ NoUrl(parsed.details)
    /\ idx' = idx + 1
    /\ UNCHANGED <<requests, openapi_spec, unique_servers, pc, err>>
    /\ UNCHANGED <<parseVars, inferVars>>

\* lines 79-141
Process ==
    /\ pc = "loop"
    /\ idx <= Len(requests)
    /\ ~IsBlank(requests[idx])
    /\ \E parsed \in {parse_curl(requests[idx])} :
          /\ parsed.raised = ""
          /\ ~NoUrl(parsed.details)
          /\ openapi_spec' =
                 ProcessRecord(openapi_spec, unique_servers, parsed.details, idx - 1)
          /\ unique_servers' =
                 unique_servers \cup {ServerUrl(urlparse(parsed.details.url.v))}
    /\ idx' = idx + 1
    /\ UNCHANGED <<requests, pc, err>>
    /\ UNCHANGED <<parseVars, inferVars>>

\* line 143
Return ==
    /\ pc = "loop"
    /\ idx > Len(requests)
    /\ pc' = "returned"
    /\ UNCHANGED <<requests, idx, openapi_spec, unique_servers, err>>
    /\ UNCHANGED <<parseVars, inferVars>>

Next ==
    \/ SkipBlank
    \/ ParseRaises
    \/ SkipNoUrl
    \/ Process
    \/ Return

Spec == Init /\ [][Next]_vars

(***************************************************************************)
(* What the claims speak of.  In a state of generate_openapi_json the      *)
(* entries 1..idx-1 of requests are the ones the loop has gone through.    *)
(***************************************************************************)
Handled == 1..(idx - 1)

\* a record with a URL: its (path, lowercase method), its origin and the
\* operation built from it, k - 1 its index in the input
RecordOf(parsed_data, url_parts, k) ==
    [url |-> TRUE,
     key |-> <<PathOf(url_parts), Lower(parsed_data.method)>>,
     origin |-> ServerUrl(url_parts),
     details |-> parsed_data,
     op |-> Operation(parsed_data, url_parts, PathOf(url_parts),
                      OperationId(Lower(parsed_data.method), PathOf(url_parts), k - 1))]

\* what parse_curl made of entry k
ParsedAs(parsed, k) ==
    IF parsed.raised # "" \/ NoUrl(parsed.details) THEN [url |-> FALSE]
    ELSE RecordOf(parsed.details, urlparse(parsed.details.url.v), k)

\* the entries gone through, each as the record with a URL it is or as none
Records ==
    [k \in Handled |->
        IF IsBlank(requests[k]) THEN [url |-> FALSE]
        ELSE ParsedAs(parse_curl(requests[k]), k)]

\* the entries of R that are records with a URL
WithUrl(R) == {k \in DOMAIN R : R[k].url}

\* no later entry of R has the path and method of entry k
IsLast(R, k) == \A j \in WithUrl(R) : R[j].key = R[k].key => j <= k

\* the (path, method) keys of paths
PathKeys ==
    UNION {{<<openapi_spec.paths[a][1], openapi_spec.paths[a][2][b][1]>> :
               b \in 1..Len(openapi_spec.paths[a][2])} :
           a \in 1..Len(openapi_spec.paths)}

\* paths[path][method]
Stored(key) == DictGet(DictGet(openapi_spec.paths, key[1], <<>>), key[2], <<>>)

\* no key twice in the pairs d
KeysOnce(d) == \A a, b \in 1..Len(d) : a # b => d[a][1] # d[b][1]

\* the entry handled last
LastHandled == idx - 1

(***************************************************************************)
(* C1: paths holds exactly the (path, lowercase method) pairs of the       *)
(* records with a URL, each pair once, and under each pair the operation   *)
(* built from the last record with that pair; blank lines and records      *)
(* without a URL add no key.  It holds after every turn of the loop, so    *)
(* in the document returned.                                               *)
(***************************************************************************)
C1_PathsLastWriteWins ==
    LET R == Records
    IN /\ PathKeys = {R[k].key : k \in WithUrl(R)}
       /\ KeysOnce(openapi_spec.paths)
       /\ \A a \in 1..Len(openapi_spec.paths) : KeysOnce(openapi_spec.paths[a][2])
       /\ \A k \in WithUrl(R) : IsLast(R, k) => Stored(R[k].key) = R[k].op

\* a document is returned for a batch of two records with the same path and method
C1_Witness ==
    /\ pc = "returned"
    /\ LET R == Records
       IN \E j, k \in WithUrl(R) : j < k /\ R[j].key = R[k].key

(***************************************************************************)
(* C2: a tokenization failure (unterminated quoting) in one transcript     *)
(* does not leave generate_openapi_json: no ValueError of shlex.split      *)
(* propagates out of the aggregator.                                       *)
(***************************************************************************)
C2_TokenizationFailureIsLocal == ~(pc = "raised" /\ err = "ValueError")

(***************************************************************************)
(* C3: the tokens parse_curl may take for the URL are those that start     *)
(* with http and are not the argument of a recognized flag.                *)
(***************************************************************************)
AllFlags == RequestFlags \cup HeaderFlags \cup DataFlags \cup FormFlags

RECURSIVE Consumed(_, _)
\* the token at position j is the argument of a recognized flag
Consumed(parts, j) == j > 1 /\ parts[j - 1] \in AllFlags /\ ~Consumed(parts, j - 1)

\* the positions before the cursor of the tokens that may be the URL
UrlTokens ==
    {j \in 1..(i - 1) : StartsWith(command_parts[j], "http") /\ ~Consumed(command_parts, j)}

\* C3 as claimed: the url is the first token that starts with http and is not
\* the argument of a recognized flag; later ones never change it
C3_FirstUrlWins ==
    ppc \in {"loop", "returned"} =>
        details.url = IF UrlTokens = {} THEN PyNone
                      ELSE PyStr(command_parts[Least(UrlTokens)])

\* C3 as amended: the url is the last token that starts with http and is not
\* the argument of a recognized flag: each later one replaces it
C3_LastUrlWins ==
    ppc \in {"loop", "returned"} =>
        details.url = IF UrlTokens = {} THEN PyNone
                      ELSE PyStr(command_parts[Greatest(UrlTokens)])

\* parse_curl returns from a command line with two different URL tokens
C3_Witness ==
    /\ ppc = "returned"
    /\ \E j, k \in UrlTokens : j < k /\ command_parts[j] # command_parts[k]

(***************************************************************************)
(* C4: a record whose Authorization header, whatever the case of its name, *)
(* has a value that starts with "bearer " (in any case) registers          *)
(* BearerAuth and gets security = [{BearerAuth: []}]; "basic " likewise    *)
(* with BasicAuth; any other value gives no security block.  Stated of the *)
(* record handled last, whose operation is the one stored under its key.   *)
(***************************************************************************)
\* the value of the first header of that name in any case, "" when none
HeaderAnyCase(headers, name) ==
    IF {j \in 1..Len(headers) : Lower(headers[j][1]) = name} = {} THEN ""
    ELSE headers[Least({j \in 1..Len(headers) : Lower(headers[j][1]) = name})][2]

C4_SecurityOf(op, scheme) ==
    /\ HasKey(openapi_spec.components.securitySchemes, scheme)
    /\ DictGet(openapi_spec.components.securitySchemes, scheme, <<>>)
           = [type |-> "http", scheme |-> IF scheme = "BearerAuth" THEN "bearer" ELSE "basic"]
    /\ "security" \in DOMAIN op
    /\ op.security = << << <<scheme, <<>> >> >> >>

C4_SecurityFor(value, op) ==
    IF StartsWith(value, "bearer ") THEN C4_SecurityOf(op, "BearerAuth")
    ELSE IF StartsWith(value, "basic ") THEN C4_SecurityOf(op, "BasicAuth")
    ELSE "security" \notin DOMAIN op

C4_AuthorizationInAnyCase ==
    LET R == Records
    IN (LastHandled >= 1 /\ R[LastHandled].url) =>
           C4_SecurityFor(Lower(HeaderAnyCase(R[LastHandled].details.headers, "authorization")),
                          Stored(R[LastHandled].key))

(***************************************************************************)
(* C5: servers holds no url twice, its urls are exactly the origins of the *)
(* records with a URL, and they stand in the order in which the origins    *)
(* were first seen.                                                        *)
(***************************************************************************)
FirstSeen(R, origin) == Least({k \in WithUrl(R) : R[k].origin = origin})

C5_ServersUniqueInFirstSeenOrder ==
    LET servers == openapi_spec.servers
        R == Records
    IN /\ \A a, b \in 1..Len(servers) : a # b => servers[a].url # servers[b].url
       /\ {servers[a].url : a \in 1..Len(servers)} = {R[k].origin : k \in WithUrl(R)}
       /\ \A a, b \in 1..Len(servers) :
              a < b => FirstSeen(R, servers[a].url) < FirstSeen(R, servers[b].url)

\* a document is returned for two records of one origin and different paths
C5_Witness ==
    /\ pc = "returned"
    /\ LET R == Records
       IN \E j, k \in WithUrl(R) :
              j < k /\ R[j].origin = R[k].origin /\ R[j].key[1] # R[k].key[1]

(***************************************************************************)
(* C6: no two records of a call get the same operationId, records with the *)
(* same method and path included, and the operationId is the lowercase     *)
(* method, "_", the path with "/" replaced by "_" and the outer "_"        *)
(* stripped (or "root"), "_", and the index of the record in the input,    *)
(* which blank and URL-less entries consume too.                           *)
(***************************************************************************)
C6_Slug(path) ==
    IF StripChars(Replace(path, "/", "_"), "_") = "" THEN "root"
    ELSE StripChars(Replace(path, "/", "_"), "_")

C6_ExpectedId(key, k) == key[2] \o "_" \o C6_Slug(key[1]) \o "_" \o IntToStr(k - 1)

C6_OperationIdsUnique ==
    LET R == Records
    IN /\ \A j, k \in WithUrl(R) : j # k => R[j].op.operationId # R[k].op.operationId
       /\ \A k \in WithUrl(R) : R[k].op.operationId = C6_ExpectedId(R[k].key, k)
       /\ \A k \in WithUrl(R) :
              IsLast(R, k) => Stored(R[k].key).operationId = C6_ExpectedId(R[k].key, k)

\* a document is returned for two records with the same method and path
C6_Witness ==
    /\ pc = "returned"
    /\ LET R == Records
       IN \E j, k \in WithUrl(R) :
              /\ j < k
              /\ R[j].key = R[k].key
              /\ Stored(R[k].key).operationId = C6_ExpectedId(R[k].key, k)

(***************************************************************************)
(* C7: the operation of a record has a requestBody, with required = true,  *)
(* if and only if the record's body is present (a data or form flag set    *)
(* it), whatever its value; with the body absent there is no requestBody   *)
(* and no schema of the record.  Stated of the record handled last.        *)
(***************************************************************************)
C7_BodyOf(body, op) ==
    /\ ("requestBody" \in DOMAIN op) <=> (body # PyNone)
    /\ "requestBody" \in DOMAIN op => op.requestBody.required = TRUE
    /\ body = PyNone => ~HasKey(openapi_spec.components.schemas, SchemaName(op.operationId))

C7_RequestBodyIffBodyPresent ==
    LET R == Records
    IN (LastHandled >= 1 /\ R[LastHandled].url) =>
           C7_BodyOf(R[LastHandled].details.body, Stored(R[LastHandled].key))

(***************************************************************************)
(* C8: each -F / --form flag with an argument key=value puts key -> value  *)
(* into a body mapping, which it creates when the body is absent, so that  *)
(* after form flags alone the body is the mapping of their well-formed     *)
(* entries, the later value winning per key; an argument without "=" is    *)
(* dropped and nothing is raised.                                          *)
(***************************************************************************)
\* the flag at position j takes the token after it as its argument
Acts(parts, j) == parts[j] \in AllFlags /\ j + 1 <= Len(parts) /\ ~Consumed(parts, j)

RECURSIVE C8_FormMapping(_, _, _)
\* the well-formed form entries of parts from position j on, added to acc
C8_FormMapping(parts, j, acc) ==
    IF j > Len(parts) THEN acc
    ELSE IF Acts(parts, j) /\ parts[j] \in FormFlags /\ Len(Split1(parts[j + 1], "=")) = 2
    THEN C8_FormMapping(parts, j + 1,
                        DictSet(acc, Split1(parts[j + 1], "=")[1],
                                PyStr(Split1(parts[j + 1], "=")[2])))
    ELSE C8_FormMapping(parts, j + 1, acc)

C8_FormBuildsMapping ==
    /\ perr # "TypeError"
    /\ (/\ ppc = "returned"
        /\ \A j \in 1..Len(command_parts) :
               Acts(command_parts, j) => command_parts[j] \notin DataFlags
        /\ C8_FormMapping(command_parts, 1, <<>>) # <<>>)
       => details.body = PyDict(C8_FormMapping(command_parts, 1, <<>>))

(***************************************************************************)
(* C9: infer_json_schema maps a string to {type: string}, an integer to    *)
(* {type: integer}, a float to {type: number}, a boolean to {type:         *)
(* boolean}, null to {type: object}, and a sequence to {type: array,       *)
(* items: the schema of its first element}, items = {} when it is empty,   *)
(* at every depth.                                                         *)
(***************************************************************************)
RECURSIVE C9_Expected(_)
C9_Expected(x) ==
    CASE x.t = "str" -> [type |-> "string"]
      [] x.t = "int" -> [type |-> "integer"]
      [] x.t = "float" -> [type |-> "number"]
      [] x.t = "bool" -> [type |-> "boolean"]
      [] x.t = "none" -> [type |-> "object"]
      [] x.t = "list" ->
            [type |-> "array",
             items |-> IF x.v = <<>> THEN EmptyDict ELSE C9_Expected(x.v[1])]
      [] x.t = "dict" ->
            [type |-> "object",
             properties |-> [j \in 1..Len(x.v) |-> <<x.v[j][1], C9_Expected(x.v[j][2])>>]]

C9_ScalarsGetTheirSchema == ipc = "returned" => schema = C9_Expected(data)

(***************************************************************************)
(* C10: the $ref of a requestBody in paths and the schemas registered in   *)
(* components.schemas.                                                     *)
(***************************************************************************)
\* the $ref of an operation's requestBody, "" when it has none
RefOf(op) ==
    IF "requestBody" \in DOMAIN op
    THEN DictGet(op.requestBody.content[1][2].schema, "$ref", "")
    ELSE ""

\* the references of the operations in paths
Refs == {RefOf(Stored(key)) : key \in PathKeys} \ {""}

\* the references that name a registered schema
Registered == {SchemaRef(name) : name \in DictKeys(openapi_spec.components.schemas)}

\* C10 as claimed: the registered schemas are exactly the referenced ones
C10_SchemasAreExactlyTheReferenced == Refs = Registered

\* C10 as amended: every reference names a registered schema, and a registered
\* schema is unreferenced only when it is the schema of a record whose
\* operation a later record with the same path and method overwrote
C10_NoDanglingReference ==
    LET R == Records
    IN /\ Refs \subseteq Registered
       /\ \A name \in DictKeys(openapi_spec.components.schemas) :
              SchemaRef(name) \notin Refs =>
                  \E j, k \in WithUrl(R) :
                      /\ j < k
                      /\ R[j].key = R[k].key
                      /\ name = SchemaName(R[j].op.operationId)

\* a document is returned in which a later record with a JSON object body
\* overwrote the operation of an earlier one
C10_Witness ==
    /\ pc = "returned"
    /\ Refs # {}
    /\ Registered \ Refs # {}

====
